---- MODULE Spec2Model ----
(***************************************************************************)
(* WordSearch (src/src/search.py): the dictionary loaded by __init__, the  *)
(* trie built by _build_trie, and the trie-pruned depth-first search of    *)
(* find_all_words / _dfs over a ROWS x COLS board whose cells are removed  *)
(* while they are on the current path and restored on backtrack.           *)
(*                                                                         *)
(* Board, Cell, Word, WordList and TrieNode are imported by search.py and  *)
(* are not part of the source at hand; their operations are modelled from  *)
(* the interface the specification gives them (section 3 and 6).           *)
(***************************************************************************)
EXTENDS Naturals, Integers, Sequences, FiniteSets, TLC

\* ---------------------------------------------------------------- bounds
\* The largest board has MaxCells cells (every shape ROWS x COLS with
\* ROWS * COLS <= MaxCells is explored).
MaxCells == 6
\* A line of the word file has at most MaxLineLen characters.
MaxLineLen == 2
\* The word file has at most MaxLines lines.
MaxLines == 2

\* ------------------------------------------------------------- alphabets
Alphabet == {"a", "b"}
\* One character stands for every whitespace character str.strip() removes
\* (blank, tab, newline).
Whitespace == " "
Chars == Alphabet \cup {Whitespace}

\* Words are sequences of characters.
RECURSIVE SeqsUpTo(_, _)
SeqsUpTo(S, n) ==
    IF n = 0 THEN {<< >>}
    ELSE LET shorter == SeqsUpTo(S, n - 1)
         IN  shorter \cup {Append(s, c) : s \in shorter, c \in S}

\* The lines the word file may hold.
Lines == SeqsUpTo(Chars, MaxLineLen)

\* The words the dictionaries of the search are drawn from.
Vocabulary ==
    { << >>, <<"a">>, <<"a", "b">>, <<"b", "a">>,
      <<"a", "b", "a">>, <<"a", "b", "a", "b">> }
Dictionaries == SUBSET Vocabulary

\* The two searches of the concurrent specification; the single-threaded
\* specification runs search 1 only.
Procs == {1, 2}

VARIABLES
    ROWS, COLS,     \* Board.ROWS, Board.COLS
    words,          \* self.words
    trie,           \* self.trie: the nodes, the root first
    phase,          \* "loading" | "building" | "built" (__init__)
    lines_read,     \* lines of the word file read so far
    todo,           \* words _build_trie's loop has still to insert
    mode,           \* "single" | "shared" | "private" | "serialized"
    lock,           \* the search holding the board in mode "serialized", or 0
    board0,         \* the board's content before any search
    board,          \* board[b]: the cells of board b
    pc,             \* pc[p]: where search p stands
    start,          \* start[p]: find_all_words' loop position, row-major
    stack,          \* stack[p]: the active _dfs calls of search p
    current_word,   \* current_word[p]: the Word _dfs extends and pops
    found_words,    \* found_words[p]: the arguments of found_words._add, in order
    access,         \* access[p]: the coordinate of p's last get_cell/set_cell
    foreign_read    \* foreign_read[p]: p has read None from a cell that none
                    \* of its own active _dfs calls removed

trieVars == <<words, trie, phase, lines_read, todo>>
boardVars == <<ROWS, COLS, mode, board0>>
searchVars ==
    <<lock, board, pc, start, stack, current_word, found_words, access, foreign_read>>
vars == <<ROWS, COLS, words, trie, phase, lines_read, todo, mode, lock, board0,
          board, pc, start, stack, current_word, found_words, access,
          foreign_read>>

\* ------------------------------------------------------------------ trie
\* TrieNode(): no children, not the end of a word.
NoChildren == [letter \in {} |-> 0]
TrieNode == [children |-> NoChildren, is_end_of_word |-> FALSE]

\* node.children[letter] = TrieNode(): the new node gets the next free id.
AddChild(children, letter, id) ==
    [l \in DOMAIN children \cup {letter} |-> IF l = letter THEN id ELSE children[l]]

\* str.strip(): the line without its leading and trailing whitespace.
RECURSIVE StripLeft(_)
StripLeft(line) ==
    IF line # << >> /\ Head(line) = Whitespace THEN StripLeft(Tail(line)) ELSE line
RECURSIVE StripRight(_)
StripRight(line) ==
    IF line # << >> /\ line[Len(line)] = Whitespace
    THEN StripRight(SubSeq(line, 1, Len(line) - 1))
    ELSE line
Strip(line) == StripRight(StripLeft(line))

\* A variant of the insertion that creates a fresh child for every letter,
\* whether or not the node already has one.
RECURSIVE InsertFromAlwaysNew(_, _, _, _)
InsertFromAlwaysNew(t, node, word, k) ==
    IF k > Len(word)
    THEN [t EXCEPT ![node].is_end_of_word = TRUE]
    ELSE LET new == Len(t) + 1
             t1 == Append([t EXCEPT ![node].children = AddChild(@, word[k], new)],
                          TrieNode)
         IN  InsertFromAlwaysNew(t1, new, word, k + 1)

\* _build_trie's inner loop for one word, from its k-th letter and the node
\* reached so far: create the missing child, descend, mark the last node.
RECURSIVE InsertFrom(_, _, _, _)
InsertFrom(t, node, word, k) ==
    IF k > Len(word)
    THEN [t EXCEPT ![node].is_end_of_word = TRUE]
    ELSE IF word[k] \in DOMAIN t[node].children
         THEN InsertFrom(t, t[node].children[word[k]], word, k + 1)
         ELSE LET new == Len(t) + 1
                  t1 == Append([t EXCEPT ![node].children = AddChild(@, word[k], new)],
                               TrieNode)
              IN  InsertFrom(t1, new, word, k + 1)

\* The whole of _build_trie over the word set W, in one iteration order.
RECURSIVE BuildFrom(_, _)
BuildFrom(t, W) ==
    IF W = {} THEN t
    ELSE LET word == CHOOSE w \in W : TRUE
         IN  BuildFrom(InsertFrom(t, 1, word, 1), W \ {word})
BuildTrie(W) == BuildFrom(<<TrieNode>>, W)

\* node.children.get(letter): the child's id, or 0 for None.
Child(node, letter) ==
    IF node # 0 /\ letter \in DOMAIN trie[node].children
    THEN trie[node].children[letter]
    ELSE 0

\* ----------------------------------------------------- __init__ (loading)
\* One iteration of `for line in file.readlines()`.
ReadLine ==
    /\ phase = "loading"
    /\ lines_read < MaxLines
    /\ \E line \in Lines : words' = words \cup {Strip(line)}
    /\ lines_read' = lines_read + 1
    /\ UNCHANGED <<trie, phase, todo>>
    /\ UNCHANGED <<boardVars, searchVars>>

\* The file is exhausted; _build_trie starts with root = TrieNode().
StartBuild ==
    /\ phase = "loading"
    /\ phase' = "building"
    /\ trie' = <<TrieNode>>
    /\ todo' = words
    /\ UNCHANGED <<words, lines_read>>
    /\ UNCHANGED <<boardVars, searchVars>>

\* One iteration of `for word in self.words`; a set is iterated in no
\* particular order.
InsertWord ==
    /\ phase = "building"
    /\ \E word \in todo :
          /\ trie' = InsertFrom(trie, 1, word, 1)
          /\ todo' = todo \ {word}
    /\ UNCHANGED <<words, phase, lines_read>>
    /\ UNCHANGED <<boardVars, searchVars>>

\* `return root`.
ReturnRoot ==
    /\ phase = "building"
    /\ todo = {}
    /\ phase' = "built"
    /\ UNCHANGED <<words, trie, lines_read, todo>>
    /\ UNCHANGED <<boardVars, searchVars>>

\* ----------------------------------------------------------------- board
\* Cell: a coordinate and a letter.  None: the marker of a removed cell.
Cell(x, y, value) == [x |-> x, y |-> y, value |-> value]
None == [x |-> -1, y |-> -1, value |-> "None"]

Shapes == {s \in (1..MaxCells) \X (1..MaxCells) : s[1] * s[2] <= MaxCells}
\* The coordinates <<x, y>> of a board of r rows and c columns.
Coords(r, c) == (0..(c - 1)) \X (0..(r - 1))
\* Whether <<x, y>> is a coordinate of the board.
InGrid(x, y) == <<x, y>> \in Coords(ROWS, COLS)

\* The board a search works on: its own copy in mode "private".
BoardOf(p) == IF mode = "private" THEN p ELSE 1

InitTrieIdle ==
    /\ phase = "built"
    /\ lines_read = 0
    /\ todo = {}

InitSearchIdle ==
    /\ lock = 0
    /\ pc = [p \in Procs |-> "idle"]
    /\ start = [p \in Procs |-> 0]
    /\ stack = [p \in Procs |-> << >>]
    /\ current_word = [p \in Procs |-> << >>]
    /\ found_words = [p \in Procs |-> << >>]
    /\ access = [p \in Procs |-> {}]
    /\ foreign_read = [p \in Procs |-> FALSE]

\* The state before __init__ reads the word file (no board yet).
InitTrie ==
    /\ words = {}
    /\ trie = <<TrieNode>>
    /\ phase = "loading"
    /\ lines_read = 0
    /\ todo = {}
    /\ ROWS = 1 /\ COLS = 1 /\ mode = "single"
    /\ board0 = [c \in Coords(1, 1) |-> Cell(c[1], c[2], "a")]
    /\ board = [b \in Procs |-> board0]
    /\ InitSearchIdle

NextTrie == ReadLine \/ StartBuild \/ InsertWord \/ ReturnRoot

SpecTrie == InitTrie /\ [][NextTrie]_vars

\* ---------------------------------------------------------------- search
\* Mode "single" runs search 1 alone; the other modes run both searches.
Active(p) == p = 1 \/ mode # "single"

\* Word.__str__ and Word._get_path: the letters and the coordinates of the
\* cells of the word, first cell first.
Render(word) == [k \in 1..Len(word) |-> word[k].value]
PathOf(word) == [k \in 1..Len(word) |-> <<word[k].x, word[k].y>>]

\* directions of _dfs, as (dx, dy).
Directions ==
    << <<-1, 0>>, <<-1, 1>>, <<0, 1>>, <<1, 1>>,
       <<1, 0>>, <<1, -1>>, <<0, -1>>, <<-1, -1>> >>

\* The frame of one _dfs call: its arguments x, y and node, its local
\* temp_cell, and the index d of the direction its loop stands at.
Frame(x, y, node) == [x |-> x, y |-> y, node |-> node, temp_cell |-> None, d |-> 1]
Top(p) == stack[p][Len(stack[p])]
\* The neighbour (nx, ny) of frame f in direction d.
Neighbour(f, d) == <<f.x + Directions[d][1], f.y + Directions[d][2]>>

\* A variant of the bounds test with a strict lower bound.
InBoundsStrict(nx, ny) == 0 < nx /\ nx < ROWS /\ 0 < ny /\ ny < COLS

\* The bounds test of _dfs: `0 <= nx < Board.ROWS and 0 <= ny < Board.COLS`.
InBounds(nx, ny) == 0 <= nx /\ nx < ROWS /\ 0 <= ny /\ ny < COLS

\* The first direction, from d on, whose neighbour passes the bounds test;
\* Len(Directions) + 1 when none is left.
RECURSIVE NextDirFrom(_, _)
NextDirFrom(f, d) ==
    IF d > Len(Directions) \/ InBounds(Neighbour(f, d)[1], Neighbour(f, d)[2])
    THEN d
    ELSE NextDirFrom(f, d + 1)
\* The same, from the direction the loop of frame f stands at.
NextDir(f) == NextDirFrom(f, f.d)

\* A variant that starts the descent at the root itself.
StartNodeRoot(cell) == 1

\* The node find_all_words hands to _dfs: self.trie.children.get(cell.value).
StartNode(cell) == Child(1, cell.value)

\* A variant that leaves the cell on the board while it is on the path.
RemovedValueKeep(f) == f.temp_cell

\* What _dfs writes to mark its cell visited: board.set_cell(x, y, None).
RemovedValue(f) == None

\* A variant that does not put the cell back.
RestoredValueNone(f) == None

\* What _dfs writes on its way out: board.set_cell(x, y, temp_cell).
RestoredValue(f) == f.temp_cell

\* The coordinates of the active _dfs calls of search p that have removed
\* their cell: all of them, but the innermost while it has not reached
\* set_cell(x, y, None).
RemovedBy(p) ==
    {<<stack[p][k].x, stack[p][k].y>> :
        k \in {j \in 1..Len(stack[p]) : j < Len(stack[p]) \/ pc[p] \in {"dirs", "crash"}}}

\* get_cell(x, y) by search p returned `cell`: note a None that p did not write.
NoteRead(p, x, y, cell) ==
    foreign_read' = [foreign_read EXCEPT ![p] =
                        @ \/ (cell = None /\ <<x, y>> \notin RemovedBy(p))]

\* A variant of the return in which the caller does not pop the cell it
\* added to current_word.
ReturnedNoPop(p, rest) ==
    /\ stack' = [stack EXCEPT ![p] =
                    IF rest = << >> THEN rest
                    ELSE [rest EXCEPT ![Len(rest)].d = @ + 1]]
    /\ pc' = [pc EXCEPT ![p] = IF rest = << >> THEN "loop" ELSE "dirs"]
    /\ start' = [start EXCEPT ![p] = IF rest = << >> THEN @ + 1 ELSE @]
    /\ UNCHANGED current_word

\* The state of search p after its innermost _dfs call has returned, given
\* the stack without that call's frame: back in find_all_words' loop, or in
\* the caller, which pops the cell it added and goes on to its next direction.
Returned(p, rest) ==
    /\ stack' = [stack EXCEPT ![p] =
                    IF rest = << >> THEN rest
                    ELSE [rest EXCEPT ![Len(rest)].d = @ + 1]]
    /\ pc' = [pc EXCEPT ![p] = IF rest = << >> THEN "loop" ELSE "dirs"]
    /\ start' = [start EXCEPT ![p] = IF rest = << >> THEN @ + 1 ELSE @]
    /\ current_word' = [current_word EXCEPT ![p] =
                           IF rest = << >> THEN @ ELSE SubSeq(@, 1, Len(@) - 1)]

\* find_all_words is called: found_words = WordList().  In mode
\* "serialized" the caller first takes the board's lock.
Call(p) ==
    /\ Active(p)
    /\ pc[p] = "idle"
    /\ mode = "serialized" => lock = 0
    /\ lock' = IF mode = "serialized" THEN p ELSE lock
    /\ pc' = [pc EXCEPT ![p] = "loop"]
    /\ found_words' = [found_words EXCEPT ![p] = << >>]
    /\ UNCHANGED <<board, start, stack, current_word, access, foreign_read>>
    /\ UNCHANGED <<trieVars, boardVars>>

\* One iteration of find_all_words' loops over y and x: read the start
\* cell and call _dfs on it; after the last cell, return found_words.
\* A start cell that reads None has no .value: the search raises.
LoopStep(p) ==
    /\ pc[p] = "loop"
    /\ IF start[p] = ROWS * COLS
       THEN /\ pc' = [pc EXCEPT ![p] = "done"]
            /\ lock' = IF lock = p THEN 0 ELSE lock
            /\ UNCHANGED <<stack, current_word, access, foreign_read>>
       ELSE LET x == start[p] % COLS
                y == start[p] \div COLS
                cell == board[BoardOf(p)][<<x, y>>]
            IN  /\ access' = [access EXCEPT ![p] = {<<x, y>>}]
                /\ NoteRead(p, x, y, cell)
                /\ IF cell = None
                   THEN /\ pc' = [pc EXCEPT ![p] = "crash"]
                        /\ lock' = IF lock = p THEN 0 ELSE lock
                        /\ UNCHANGED <<stack, current_word>>
                   ELSE /\ pc' = [pc EXCEPT ![p] = "enter"]
                        /\ stack' = [stack EXCEPT ![p] = <<Frame(x, y, StartNode(cell))>>]
                        /\ current_word' = [current_word EXCEPT ![p] = <<cell>>]
                        /\ UNCHANGED lock
    /\ UNCHANGED <<board, start, found_words>>
    /\ UNCHANGED <<trieVars, boardVars>>

\* The head of _dfs: return at once when node is None; otherwise record the
\* current word if the node ends one, and read temp_cell.
DfsEnter(p) ==
    /\ pc[p] = "enter"
    /\ LET f == Top(p)
       IN  IF f.node = 0
           THEN /\ Returned(p, SubSeq(stack[p], 1, Len(stack[p]) - 1))
                /\ UNCHANGED <<found_words, access, foreign_read>>
           ELSE /\ found_words' = [found_words EXCEPT ![p] =
                       IF trie[f.node].is_end_of_word
                       THEN Append(@, [word |-> Render(current_word[p]),
                                       path |-> PathOf(current_word[p])])
                       ELSE @]
                /\ access' = [access EXCEPT ![p] = {<<f.x, f.y>>}]
                /\ NoteRead(p, f.x, f.y, board[BoardOf(p)][<<f.x, f.y>>])
                /\ stack' = [stack EXCEPT ![p][Len(stack[p])].temp_cell =
                                board[BoardOf(p)][<<f.x, f.y>>]]
                /\ pc' = [pc EXCEPT ![p] = "remove"]
                /\ UNCHANGED <<start, current_word>>
    /\ UNCHANGED <<lock, board>>
    /\ UNCHANGED <<trieVars, boardVars>>

\* board.set_cell(x, y, None): the cell is marked visited.
DfsRemove(p) ==
    /\ pc[p] = "remove"
    /\ LET f == Top(p)
       IN  /\ board' = [board EXCEPT ![BoardOf(p)][<<f.x, f.y>>] = RemovedValue(f)]
           /\ access' = [access EXCEPT ![p] = {<<f.x, f.y>>}]
    /\ pc' = [pc EXCEPT ![p] = "dirs"]
    /\ UNCHANGED <<lock, start, stack, current_word, found_words, foreign_read>>
    /\ UNCHANGED <<trieVars, boardVars>>

\* `for dx, dy in directions`, up to the next get_cell: the neighbours the
\* bounds test rejects are skipped; the first one it lets through is read,
\* and _dfs recurses into it when the cell is present and its letter is a
\* child of the node.  A neighbour the test lets through that is no cell of
\* the board makes get_cell fail, and the search raises.
DfsDir(p) ==
    /\ pc[p] = "dirs"
    /\ NextDir(Top(p)) <= Len(Directions)
    /\ LET f == Top(p)
           d == NextDir(f)
           nx == Neighbour(f, d)[1]
           ny == Neighbour(f, d)[2]
           top == Len(stack[p])
       IN  /\ access' = [access EXCEPT ![p] = {<<nx, ny>>}]
           /\ IF ~InGrid(nx, ny)
              THEN /\ pc' = [pc EXCEPT ![p] = "crash"]
                   /\ lock' = IF lock = p THEN 0 ELSE lock
                   /\ stack' = [stack EXCEPT ![p][top].d = d]
                   /\ UNCHANGED <<current_word, foreign_read>>
              ELSE LET next_cell == board[BoardOf(p)][<<nx, ny>>]
                   IN  /\ NoteRead(p, nx, ny, next_cell)
                       /\ UNCHANGED lock
                       /\ IF /\ next_cell # None
                             /\ next_cell.value \in DOMAIN trie[f.node].children
                          THEN /\ current_word' = [current_word EXCEPT ![p] =
                                                      Append(@, next_cell)]
                               /\ stack' = [stack EXCEPT ![p] =
                                     Append([@ EXCEPT ![top].d = d],
                                            Frame(nx, ny,
                                                  trie[f.node].children[next_cell.value]))]
                               /\ pc' = [pc EXCEPT ![p] = "enter"]
                          ELSE /\ stack' = [stack EXCEPT ![p][top].d = d + 1]
                               /\ UNCHANGED <<pc, current_word>>
    /\ UNCHANGED <<board, start, found_words>>
    /\ UNCHANGED <<trieVars, boardVars>>

\* The tail of _dfs, once no direction is left: board.set_cell(x, y,
\* temp_cell), and the return to the
\* caller (its current_word.pop()) or to find_all_words' loop.
DfsRestore(p) ==
    /\ pc[p] = "dirs"
    /\ NextDir(Top(p)) > Len(Directions)
    /\ LET f == Top(p)
       IN  /\ board' = [board EXCEPT ![BoardOf(p)][<<f.x, f.y>>] = RestoredValue(f)]
           /\ access' = [access EXCEPT ![p] = {<<f.x, f.y>>}]
    /\ Returned(p, SubSeq(stack[p], 1, Len(stack[p]) - 1))
    /\ UNCHANGED <<lock, found_words, foreign_read>>
    /\ UNCHANGED <<trieVars, boardVars>>

Next ==
    \E p \in Procs :
        \/ Call(p)
        \/ LoopStep(p)
        \/ DfsEnter(p)
        \/ DfsRemove(p)
        \/ DfsDir(p)
        \/ DfsRestore(p)

\* A WordSearch whose trie is built, and a fully populated board.
InitBoard ==
    /\ words \in Dictionaries
    /\ trie = BuildTrie(words)
    /\ InitTrieIdle
    /\ \E s \in Shapes :
          /\ ROWS = s[1]
          /\ COLS = s[2]
          /\ \E letters \in [Coords(s[1], s[2]) -> Alphabet] :
                board0 = [c \in Coords(s[1], s[2]) |-> Cell(c[1], c[2], letters[c])]
    /\ board = [b \in Procs |-> board0]
    /\ InitSearchIdle

\* One search, alone on its board.
Init == InitBoard /\ mode = "single"

Spec == Init /\ [][Next]_vars

\* The same, where a step that can be taken eventually is.
FairSpec == Spec /\ WF_vars(Next)

\* ------------------------------------------------- two searches at once
\* The dictionaries of the concurrent specification.
ConcDictionaries == { {<<"a", "b">>}, {<<"a">>, <<"a", "b">>} }

\* Two searches of one WordSearch over a square board of more than one
\* cell, one of which holds the first letter of the words: on the same board with their steps interleaved ("shared"), each on
\* a copy of its own ("private"), or on the same board one after the other
\* ("serialized").
InitConc ==
    /\ InitBoard
    /\ words \in ConcDictionaries
    /\ ROWS = COLS
    /\ ROWS > 1
    /\ Cardinality({c \in DOMAIN board0 : board0[c].value = "a"}) = 1
    /\ mode \in {"shared", "private", "serialized"}

SpecConc == InitConc /\ [][Next]_vars

\* ================================================================ claims
Range(seq) == {seq[k] : k \in 1..Len(seq)}
\* The coordinates of board b that hold None.
Removed(b) == {c \in DOMAIN board[b] : board[b][c] = None}
\* The coordinates of the active _dfs calls of search p.
OnStack(p) == {<<stack[p][k].x, stack[p][k].y>> : k \in 1..Len(stack[p])}
\* Two distinct coordinates that touch by an edge or a corner.
Adjacent(c1, c2) ==
    /\ c1 # c2
    /\ c1[1] - c2[1] \in {-1, 0, 1}
    /\ c1[2] - c2[2] \in {-1, 0, 1}
\* The sequences of n pairwise distinct, consecutively adjacent coordinates
\* of the board.
RECURSIVE SimplePaths(_)
SimplePaths(n) ==
    IF n = 1 THEN {<<c>> : c \in DOMAIN board0}
    ELSE UNION {{Append(path, c) :
                    c \in {c \in DOMAIN board0 :
                              c \notin Range(path) /\ Adjacent(path[n - 1], c)}} :
                path \in SimplePaths(n - 1)}
\* The letters of the board along `path` are the letters of `word`.
Spells(path, word) ==
    /\ Len(path) = Len(word)
    /\ \A k \in 1..Len(word) : board0[path[k]].value = word[k]
\* Every way of spelling a non-empty dictionary word on the board.
Embeddings ==
    UNION {{[word |-> w, path |-> path] :
               path \in {q \in SimplePaths(Len(w)) : Spells(q, w)}} :
           w \in words \ {<< >>}}
\* The words search p has passed to found_words._add.
FoundWords(p) == {e.word : e \in Range(found_words[p])}

\* ------------------------------------------------------------------- C1
\* C1: when find_all_words returns, every cell of the board holds what it
\* held before the call; and at any moment a cell that is not as it was is
\* None and belongs to a _dfs call that is still active, so that every
\* removal is undone before the call that made it returns (between two
\* start cells the board is whole).
C1_BoardRestored ==
    /\ pc[1] \in {"loop", "done"} => board[1] = board0
    /\ \A c \in DOMAIN board0 :
          \/ board[1][c] = board0[c]
          \/ board[1][c] = None /\ c \in RemovedBy(1)
\* A search that has returned after removing and restoring cells on paths
\* of two cells or more.
C1_Witness ==
    /\ pc[1] = "done"
    /\ \E e \in Range(found_words[1]) : Len(e.path) >= 2

\* ------------------------------------------------------------------- C2
\* C2: every (word, path) pair passed to found_words._add is a valid
\* embedding: the word is in the dictionary, the path is as long as the
\* word, the cell at the k-th coordinate holds the k-th letter, consecutive
\* coordinates are distinct neighbours, and no coordinate occurs twice.
C2_ValidEmbedding ==
    \A e \in Range(found_words[1]) :
        /\ e.word \in words
        /\ Len(e.path) = Len(e.word)
        /\ \A k \in 1..Len(e.path) :
              /\ e.path[k] \in DOMAIN board0
              /\ board0[e.path[k]].value = e.word[k]
        /\ \A k \in 1..(Len(e.path) - 1) : Adjacent(e.path[k], e.path[k + 1])
        /\ \A j, k \in 1..Len(e.path) : j # k => e.path[j] # e.path[k]
\* A word of four letters has been found.
C2_Witness == \E e \in Range(found_words[1]) : Len(e.word) = 4

\* ------------------------------------------------------------------- C3
\* C3: when find_all_words has returned, every non-empty dictionary word
\* that some path of distinct, consecutively adjacent cells of the board
\* spells has been passed to found_words._add, on square boards and on
\* boards with ROWS different from COLS.
C3_Complete ==
    pc[1] = "done" => \A e \in Embeddings : e.word \in FoundWords(1)

\* ------------------------------------------------------------------- C4
\* C4: every word passed to found_words._add has at least one letter, also
\* when the root of the trie is marked as the end of a word; and with the
\* empty string as the only dictionary word nothing is found at all.
C4_NoZeroLengthFind ==
    /\ \A e \in Range(found_words[1]) : Len(e.word) >= 1 /\ Len(e.path) >= 1
    /\ words = {<< >>} => found_words[1] = << >>
\* A search that has returned with finds, over a trie whose root ends a word.
C4_Witness ==
    /\ trie[1].is_end_of_word
    /\ pc[1] = "done"
    /\ found_words[1] # << >>

\* ------------------------------------------------------------------- C5
\* C5: lines that are empty after stripping are skipped: the word set never
\* holds the empty string, and the root of the trie _build_trie returns is
\* not marked as the end of a word.
C5_EmptyLinesSkipped ==
    /\ << >> \notin words
    /\ phase = "built" => ~trie[1].is_end_of_word

\* ------------------------------------------------------------------- C6
\* The walk of the letters of s from node `node` of trie t, from the k-th
\* letter on: the node reached, or 0 at a missing child.
RECURSIVE WalkFrom(_, _, _, _)
WalkFrom(t, node, s, k) ==
    IF k > Len(s) THEN node
    ELSE IF s[k] \in DOMAIN t[node].children
         THEN WalkFrom(t, t[node].children[s[k]], s, k + 1)
         ELSE 0
Walk(s) == WalkFrom(trie, 1, s, 1)
IsPrefix(s, w) == Len(s) <= Len(w) /\ SubSeq(w, 1, Len(s)) = s
IsPrefixOfWord(s) == \E w \in words : IsPrefix(s, w)
\* The letter sequences the trie is probed with: one letter longer than the
\* longest line.
Probes == SeqsUpTo(Chars, MaxLineLen + 1)
\* The walk of s ends on a node marked as the end of a word exactly when s
\* is a word.
WalkEndsWord(s) == (Walk(s) # 0 /\ trie[Walk(s)].is_end_of_word) <=> s \in words
\* The walk of s fails at the first letter at which s is no longer a prefix
\* of any word, and not before.
WalkFailsAtDivergence(s) ==
    \A k \in 1..Len(s) :
        (Walk(SubSeq(s, 1, k - 1)) # 0 /\ Walk(SubSeq(s, 1, k)) = 0)
            => /\ ~IsPrefixOfWord(SubSeq(s, 1, k))
               /\ \A j \in 1..(k - 1) : IsPrefixOfWord(SubSeq(s, 1, j))

\* C6 as stated: in the trie _build_trie returns, for every letter sequence
\* s, the walk of s ends on an end-of-word node iff s is in the word set,
\* and it meets no missing child iff s is a prefix of some word (failing
\* otherwise at the first letter where s diverges from every word).
C6_WalkIffPrefix ==
    phase = "built" =>
        \A s \in Probes :
            /\ WalkEndsWord(s)
            /\ Walk(s) # 0 <=> IsPrefixOfWord(s)
            /\ WalkFailsAtDivergence(s)

\* C6 as amended: the same, where the walk of s meets no missing child iff
\* s is empty or a prefix of some word (the walk of the empty sequence
\* stays on the root, also when the word set is empty).
C6_WalkIffEmptyOrPrefix ==
    phase = "built" =>
        \A s \in Probes :
            /\ WalkEndsWord(s)
            /\ Walk(s) # 0 <=> (s = << >> \/ IsPrefixOfWord(s))
            /\ WalkFailsAtDivergence(s)
\* A trie built from a word and a proper extension of it.
C6_Witness ==
    /\ phase = "built"
    /\ \E v, w \in words : v # << >> /\ v # w /\ IsPrefix(v, w)

\* ------------------------------------------------------------------- C7
\* C7: two searches that each work on a private copy of the board, or that
\* are serialized, never read a cell the other has removed, never fail,
\* each return what a search returns alone (every embedding of a dictionary
\* word, once), and leave the board as it was; the searches that share one
\* board with their steps interleaved are the witness that none of this
\* holds there.
C7_SafeWhenPrivateOrSerialized ==
    mode \in {"private", "serialized"} =>
        \A p \in Procs :
            /\ ~foreign_read[p]
            /\ pc[p] # "crash"
            /\ pc[p] = "done" =>
                  /\ Range(found_words[p]) = Embeddings
                  /\ Len(found_words[p]) = Cardinality(Embeddings)
                  /\ (mode = "private" \/ lock = 0) => board[BoardOf(p)] = board0
\* Both searches of a shared board have returned; one has read a cell the
\* other had removed and returns a set of words that is not the one it
\* returns alone, and the board is not restored.
C7_Witness ==
    /\ mode = "shared"
    /\ \A p \in Procs : pc[p] = "done"
    /\ \E p \in Procs :
          /\ foreign_read[p]
          /\ FoundWords(p) # {e.word : e \in Embeddings}
    /\ board[1] # board0

\* ------------------------------------------------------------------- C8
\* C8: every get_cell and set_cell of the search uses a coordinate (x, y)
\* with 0 <= x < COLS and 0 <= y < ROWS, and _dfs lets a neighbour through
\* its bounds test exactly when the neighbour is such a coordinate.
C8_AccessInBounds ==
    /\ \A c \in access[1] : InGrid(c[1], c[2])
    /\ \A k \in 1..Len(stack[1]) : \A d \in 1..Len(Directions) :
          LET n == Neighbour(stack[1][k], d)
          IN  InBounds(n[1], n[2]) <=> InGrid(n[1], n[2])

\* ------------------------------------------------------------------- C9
\* C9: the number of active _dfs calls never exceeds ROWS * COLS, and
\* find_all_words eventually returns.
C9_Terminates ==
    /\ [](Len(stack[1]) <= ROWS * COLS)
    /\ <>(pc[1] = "done")

\* ------------------------------------------------------------------ C10
\* C10: whenever _dfs is about to read a neighbour's cell, the cells of
\* the board that hold None are exactly the coordinates of the active _dfs
\* calls, which are the coordinates of the current word's path.
C10_AbsentIsPath ==
    (pc[1] = "dirs" /\ NextDir(Top(1)) <= Len(Directions)) =>
        /\ Removed(1) = OnStack(1)
        /\ Removed(1) = Range(PathOf(current_word[1]))
        /\ Cardinality(Removed(1)) = Len(stack[1])
\* A neighbour is about to be read three calls deep.
C10_Witness ==
    /\ pc[1] = "dirs"
    /\ NextDir(Top(1)) <= Len(Directions)
    /\ Len(stack[1]) >= 3
====
